---- MODULE Spec2Model ----
(***************************************************************************)
(* Verification model of the SPAAS suppression engines.                    *)
(*                                                                         *)
(*   backend/app/hypercube.py            HypercubeEngine (primary rules on  *)
(*                                       the table, constraint graph,      *)
(*                                       secondary suppression by integer  *)
(*                                       program with heuristic fallback)  *)
(*   backend/app/primary_suppression.py  PrimarySuppressionEngine          *)
(*                                       (threshold, dominance, p-percent  *)
(*                                       on contributor lists)             *)
(*                                                                         *)
(* Numbers are integers.  A percentage comparison  a / b * 100 > k  is     *)
(* evaluated exactly (by cross-multiplication) where IEEE doubles give the *)
(* same answer on the model's values, and by an explicit table of the      *)
(* double-precision results where they do not.                             *)
(***************************************************************************)
EXTENDS FiniteSets, Integers, Sequences, TLC

VARIABLES
    \* ---- HypercubeEngine and one call of run_hypercube_suppression
    protection_rules,   \* self.protection_rules
    cells,              \* self.cells: cell_id -> CellInfo
    constraints,        \* self.constraints: list of AdditiveConstraint
    constraint_graph,   \* self.constraint_graph (None until built)
    data,               \* the DataFrame passed to the running call
    primary_cells,      \* local primary_cells of the running call
    secondary_cells,    \* local secondary_cells of the running call
    solver_status,      \* what the solver backend reported to this call
    strategy,           \* which branch produced secondary_cells (observer)
    statistics,         \* the statistics dict returned by the call
    error,              \* the exception that ended the call, if any
    pc,                 \* position of the call
    runs,               \* calls of run_hypercube_suppression on this engine
    \* ---- one call of a rule check of PrimarySuppressionEngine
    rule_in,            \* the engine's rules and the arguments of the call
    rule_out,           \* which check was called and what it returned
    \* ---- apply_primary_suppression_to_file
    p_rules,            \* rules passed to the call
    p_df,               \* df passed to the call: the list of cell values
    p_idx,              \* row the loop is at
    p_result,           \* df_result, one record per row
    p_log,              \* engine.suppression_log
    p_contrib,          \* how many contributors the last pass of the loop simulated
    p_out,              \* (df_suppressed, summary) the call returned
    p_first,            \* (df_suppressed, summary) of the first finished call
    p_pc                \* position of the call

hvars == <<protection_rules, cells, constraints, constraint_graph, data,
           primary_cells, secondary_cells, solver_status, strategy,
           statistics, error, pc, runs>>

rvars == <<rule_in, rule_out>>

pvars == <<p_rules, p_df, p_idx, p_result, p_log, p_contrib, p_out, p_first, p_pc>>

vars == <<hvars, rvars, pvars>>

----------------------------------------------------------------------------
(* Bounds of the model *)

\* a table has at most MaxCells cells (rows * columns)
MaxCells == 5
\* the one-row tables of more than MaxCells cells have at most MaxWide cells
MaxWide == 7
\* tables of the engine-reuse specification have at most MaxReuseCells cells
MaxReuseCells == 3
\* calls of run_hypercube_suppression on one engine instance
MaxRuns == 2

\* cells of a three-by-three table that differ from the common value
MaxSpecial == 2

\* cells of a four-by-two table that differ from the common value
MaxTallSpecial == 3

\* cells of a one-row table with negative and zero values
MaxSigned == 4

\* numeric cell values the tables are drawn from
NumValues == {1, 3, 5}

----------------------------------------------------------------------------
(* Generic helpers (Python built-ins used by the source) *)

Min2(a, b) == IF a <= b THEN a ELSE b

Max2(a, b) == IF a >= b THEN a ELSE b

Abs(x) == IF x < 0 THEN -x ELSE x

RECURSIVE SumSeq(_)
SumSeq(s) == IF s = <<>> THEN 0 ELSE Head(s) + SumSeq(Tail(s))

\* index of the first largest element of a non-empty sequence
FirstMaxIdx(s) ==
    CHOOSE i \in 1..Len(s) :
        /\ \A k \in 1..Len(s) : s[k] <= s[i]
        /\ \A k \in 1..(i - 1) : s[k] < s[i]

RemoveAt(s, i) == SubSeq(s, 1, i - 1) \o SubSeq(s, i + 1, Len(s))

\* sorted(values, reverse=True)
RECURSIVE SortDesc(_)
SortDesc(s) ==
    IF s = <<>> THEN <<>>
    ELSE LET i == FirstMaxIdx(s) IN <<s[i]>> \o SortDesc(RemoveAt(s, i))

\* s[:n] with Python's slice semantics
Prefix(s, n) ==
    IF n >= 0 THEN SubSeq(s, 1, Min2(n, Len(s)))
    ELSE SubSeq(s, 1, Max2(0, Len(s) + n))

\* s[n:] for n >= 0
Suffix(s, n) == SubSeq(s, Min2(n, Len(s)) + 1, Len(s))

SeqRange(s) == {s[i] : i \in 1..Len(s)}

\* a list holding the members of a set, each once
RECURSIVE SetToSeq(_)
SetToSeq(S) ==
    IF S = {} THEN <<>>
    ELSE LET x == CHOOSE y \in S : TRUE IN <<x>> \o SetToSeq(S \ {x})

----------------------------------------------------------------------------
(* Tables (pandas DataFrame with numeric columns) *)

\* a cell of a numeric column: a number, or missing (NaN)
MissingCell == [na |-> TRUE, v |-> 0]

NumCell(x) == [na |-> FALSE, v |-> x]

\* the cells a numeric column can hold, over a set of numbers
CellDomain(values) == {MissingCell} \cup {NumCell(x) : x \in values}

Coords(r, c) == (0..(r - 1)) \X (0..(c - 1))

Shapes(n) == {rc \in (1..n) \X (1..n) : rc[1] * rc[2] <= n}

\* tables of up to n cells in numeric columns; a table is its number of rows,
\* of numeric columns (the first columns) and of label columns, and the
\* cells of the numeric columns
Tables(n) ==
    UNION {[nrows : {rc[1]}, ncols : {rc[2]}, labels : {0},
            val : [Coords(rc[1], rc[2]) -> CellDomain(NumValues)]] : rc \in Shapes(n)}

\* one-row tables of MaxCells + 1 .. n present cells without small values
WideRows(n) ==
    UNION {[nrows : {1}, ncols : {c}, labels : {0},
            val : [Coords(1, c) -> {NumCell(1), NumCell(5)}]] :
                c \in (MaxCells + 1)..n}

\* tables of up to n rows without a numeric column: one label column
LabelTables(n) ==
    [nrows : 1..n, ncols : {0}, labels : {1}, val : {<<>>}]

\* tables of three rows and three numeric columns whose cells hold 5, except
\* up to n cells, which are missing or hold 1 or 50
GridTables(n) ==
    LET special == {S \in SUBSET Coords(3, 3) : Cardinality(S) <= n}
        fill == UNION {[S -> {MissingCell, NumCell(1), NumCell(50)}] : S \in special}
    IN {[nrows |-> 3, ncols |-> 3, labels |-> 0,
         val |-> [x \in Coords(3, 3) |->
                     IF x \in DOMAIN f THEN f[x] ELSE NumCell(5)]] : f \in fill}

\* tables of four rows and two numeric columns whose cells hold 4, except up
\* to n cells, which are missing or hold 1
TallTables(n) ==
    LET special == {S \in SUBSET Coords(4, 2) : Cardinality(S) <= n}
        fill == UNION {[S -> {MissingCell, NumCell(1)}] : S \in special}
    IN {[nrows |-> 4, ncols |-> 2, labels |-> 0,
         val |-> [x \in Coords(4, 2) |->
                     IF x \in DOMAIN f THEN f[x] ELSE NumCell(4)]] : f \in fill}

\* one-row tables of up to n cells that are missing or hold -5, 0 or 5
SignedRows(n) ==
    UNION {[nrows : {1}, ncols : {c}, labels : {0},
            val : [Coords(1, c) -> CellDomain({-5, 0, 5})]] : c \in 1..n}

\* the table before any call
NoData == [nrows |-> 0, ncols |-> 0, labels |-> 0, val |-> <<>>]

\* f"cell_{i}_{j}"
CellId(i, j) == <<"cell", i, j>>

\* pd.isna(cell_value)
IsNa(d, i, j) == d.val[<<i, j>>].na

\* row i of numeric_data with the missing entries dropped, as a list
RowValues(d, i) ==
    LET all == [j \in 1..d.ncols |-> d.val[<<i, j - 1>>]]
        keep(c) == ~c.na
        kept == SelectSeq(all, keep)
    IN [k \in 1..Len(kept) |-> kept[k].v]

\* column j of numeric_data with the missing entries dropped, as a list
ColValues(d, j) ==
    LET all == [i \in 1..d.nrows |-> d.val[<<i - 1, j>>]]
        keep(c) == ~c.na
        kept == SelectSeq(all, keep)
    IN [k \in 1..Len(kept) |-> kept[k].v]

----------------------------------------------------------------------------
(* Protection rules of the hypercube engine *)

DefaultRules ==
    [min_frequency |-> 3, dominance_n |-> 1, dominance_k |-> 80, p_percent |-> 10]

\* the configurations the engine is constructed with
RuleConfigs ==
    {DefaultRules,
     [min_frequency |-> 1, dominance_n |-> 2, dominance_k |-> 80, p_percent |-> 10]}

\* the configurations of the engines that are given tables with negative
\* and zero values: the default one, one that lets zero pass the frequency
\* rule and one that lets -5 pass it (nothing rejects a negative
\* min_frequency)
SignedRuleConfigs ==
    {DefaultRules,
     [min_frequency |-> 0, dominance_n |-> 1, dominance_k |-> 80, p_percent |-> 10],
     [min_frequency |-> -10, dominance_n |-> 1, dominance_k |-> 80, p_percent |-> 10]}

\* (top_n_sum / total) * 100 > k for total > 0; on the sums of the model's
\* values the double-precision result equals the exact one
DominancePctExceeds(top_n_sum, total, k) == top_n_sum * 100 > k * total

\* one direction (row or column) of _check_dominance_rule
DominatedIn(values, cell_value, rules) ==
    /\ Len(values) > 1
    /\ SumSeq(values) > 0
    /\ LET top == Prefix(SortDesc(values), rules.dominance_n)
       IN /\ DominancePctExceeds(SumSeq(top), SumSeq(values), rules.dominance_k)
          /\ cell_value \in SeqRange(top)

\* HypercubeEngine._check_dominance_rule
CheckDominanceRuleH(i, j, d, rules) ==
    LET cell_value == d.val[<<i, j>>].v
    IN \/ DominatedIn(RowValues(d, i), cell_value, rules)
       \/ DominatedIn(ColValues(d, j), cell_value, rules)

\* abs(estimated_max - estimated_min) < 2 * interval in IEEE doubles, where
\* interval = cell_value * (p_percent / 100), estimated_min = rest - interval
\* and estimated_max = rest + interval.  In exact arithmetic the width is
\* 2 * interval and the comparison is false; in doubles the two roundings
\* make it true for the pairs <<cell_value, rest>> listed here (all pairs
\* with cell_value and rest in 0..5 or 50, at p_percent = 10).  For a
\* negative cell_value the interval is negative and the comparison is false.
RangeNarrowerThanInterval(cell_value, rest, p_percent) ==
    /\ p_percent = 10
    /\ <<cell_value, rest>> \in
          {<<1, 4>>, <<1, 5>>, <<2, 1>>, <<3, 2>>, <<3, 3>>, <<3, 4>>,
           <<3, 5>>, <<3, 50>>, <<4, 1>>, <<4, 2>>, <<4, 3>>, <<4, 50>>}

\* total - sum(others), where others drops the list entry at position idx
\* (0-based) of the NaN-dropped list, if there is one
RestAfterOthers(values, idx) ==
    LET others == IF idx < Len(values) THEN RemoveAt(values, idx + 1) ELSE values
    IN SumSeq(values) - SumSeq(others)

OthersNonEmpty(values, idx) ==
    IF idx < Len(values) THEN Len(values) > 1 ELSE Len(values) > 0

\* one direction (row or column) of _check_p_percent_rule
EstimableIn(values, idx, cell_value, rules) ==
    /\ Len(values) > 1
    /\ OthersNonEmpty(values, idx)
    /\ RangeNarrowerThanInterval(cell_value, RestAfterOthers(values, idx),
                                 rules.p_percent)

\* HypercubeEngine._check_p_percent_rule
CheckPPercentRuleH(i, j, d, rules) ==
    LET cell_value == d.val[<<i, j>>].v
    IN /\ cell_value # 0
       /\ \/ EstimableIn(RowValues(d, i), j, cell_value, rules)
          \/ EstimableIn(ColValues(d, j), i, cell_value, rules)

\* variant: the frequency rule is left out
SuppressReasonsNoFrequency(i, j, d, rules) ==
    (IF CheckDominanceRuleH(i, j, d, rules) THEN {"dominance"} ELSE {})
    \cup (IF CheckPPercentRuleH(i, j, d, rules) THEN {"p-percent"} ELSE {})

\* the rules that fire on cell (i, j): suppress_reasons
SuppressReasons(i, j, d, rules) ==
    (IF d.val[<<i, j>>].v < rules.min_frequency THEN {"frequency"} ELSE {})
    \cup (IF CheckDominanceRuleH(i, j, d, rules) THEN {"dominance"} ELSE {})
    \cup (IF CheckPPercentRuleH(i, j, d, rules) THEN {"p-percent"} ELSE {})

\* HypercubeEngine.identify_primary_suppressions
IdentifyPrimarySuppressions(d, rules) ==
    {CellId(rc[1], rc[2]) : rc \in
        {x \in Coords(d.nrows, d.ncols) :
            /\ ~IsNa(d, x[1], x[2])
            /\ SuppressReasons(x[1], x[2], d, rules) # {}}}

----------------------------------------------------------------------------
(* build_constraint_graph *)

\* cost = float(cell_value) for a present value
SuppressionCost(cell_value) == cell_value

\* the coordinates build_constraint_graph creates a CellInfo for
NumericCoords(d) == {x \in Coords(d.nrows, d.ncols) : ~IsNa(d, x[1], x[2])}

NumericIds(d) == {CellId(x[1], x[2]) : x \in NumericCoords(d)}

CellInfo(d, i, j, primary) ==
    [cell_id |-> CellId(i, j), row_idx |-> i, col_idx |-> j,
     value |-> d.val[<<i, j>>].v,
     is_primary_suppressed |-> (CellId(i, j) \in primary),
     suppression_cost |-> SuppressionCost(d.val[<<i, j>>].v),
     sensitivity_level |-> 1]

\* variant: the cells are built before any primary cell is known
CellsAfterBuildNoPrimary(old, d, primary) ==
    [id \in (DOMAIN old) \cup NumericIds(d) |->
        IF id \in NumericIds(d) THEN CellInfo(d, id[2], id[3], {})
        ELSE old[id]]

\* self.cells[cell_id] = cell_info for every present cell; the entries of
\* earlier calls stay in the dict
CellsAfterBuild(old, d, primary) ==
    [id \in (DOMAIN old) \cup NumericIds(d) |->
        IF id \in NumericIds(d) THEN CellInfo(d, id[2], id[3], primary)
        ELSE old[id]]

RowCellIds(d, i) == [j \in 1..d.ncols |-> CellId(i, j - 1)]

ColCellIds(d, j) == [i \in 1..d.nrows |-> CellId(i - 1, j)]

RowConstraint(d, i) ==
    [constraint_id |-> <<"row", i>>, cell_ids |-> RowCellIds(d, i),
     total |-> SumSeq(RowValues(d, i)), constraint_type |-> "row"]

ColConstraint(d, j) ==
    [constraint_id |-> <<"col", j>>, cell_ids |-> ColCellIds(d, j),
     total |-> SumSeq(ColValues(d, j)), constraint_type |-> "column"]

\* the constraints one call appends: the rows in order, then the columns
NewConstraints(d) ==
    [k \in 1..(d.nrows + d.ncols) |->
        IF k <= d.nrows THEN RowConstraint(d, k - 1)
        ELSE ColConstraint(d, k - d.nrows - 1)]

\* the pairs G.add_edge is called on
RowPairs(d) ==
    {{CellId(i, a), CellId(i, b)} :
        <<i, a, b>> \in {t \in (0..(d.nrows - 1)) \X (0..(d.ncols - 1)) \X (0..(d.ncols - 1)) :
                            t[2] < t[3]}}

ColPairs(d) ==
    {{CellId(a, j), CellId(b, j)} :
        <<j, a, b>> \in {t \in (0..(d.ncols - 1)) \X (0..(d.nrows - 1)) \X (0..(d.nrows - 1)) :
                            t[2] < t[3]}}

NoAttrs == [has |-> FALSE]

NodeAttrs(d, i, j, primary) ==
    [has |-> TRUE, value |-> d.val[<<i, j>>].v,
     cost |-> SuppressionCost(d.val[<<i, j>>].v),
     is_primary |-> (CellId(i, j) \in primary), row |-> i, col |-> j]

\* the networkx graph: G.add_node for every present cell, G.add_edge for
\* every pair of a row or column (add_edge creates an endpoint that is not
\* yet a node, without attributes)
BuildGraph(d, primary) ==
    LET touched == UNION (RowPairs(d) \cup ColPairs(d))
    IN [built |-> TRUE,
        nodes |-> [id \in NumericIds(d) \cup touched |->
                      IF id \in NumericIds(d)
                      THEN NodeAttrs(d, id[2], id[3], primary) ELSE NoAttrs],
        edges |-> {[ends |-> e, constraint_type |-> "row",
                    constraint_id |-> <<"row", (CHOOSE x \in e : TRUE)[2]>>] :
                        e \in RowPairs(d)}
                  \cup
                  {[ends |-> e, constraint_type |-> "column",
                    constraint_id |-> <<"col", (CHOOSE x \in e : TRUE)[3]>>] :
                        e \in ColPairs(d)}]

NoGraph == [built |-> FALSE]

----------------------------------------------------------------------------
(* solve_secondary_suppressions: the integer program *)

\* the cells that get a BoolVar: suppress_vars[cell_id] is not None
SuppressVars(cs) == {id \in DOMAIN cs : ~cs[id].is_primary_suppressed}

\* self.cells[cid] fails for a cell id some constraint lists
MissingCellLookup(cs, cons) ==
    \E k \in 1..Len(cons) : \E n \in 1..Len(cons[k].cell_ids) :
        cons[k].cell_ids[n] \notin DOMAIN cs

PrimaryCount(cs, c) ==
    Cardinality({n \in 1..Len(c.cell_ids) : cs[c.cell_ids[n]].is_primary_suppressed})

\* suppression_terms of a constraint
SuppressionTerms(cs, c) ==
    {c.cell_ids[n] : n \in {m \in 1..Len(c.cell_ids) :
                                ~cs[c.cell_ids[m]].is_primary_suppressed}}

\* variant: one companion is asked for, whatever the number of primaries
MinSecondaryOne(primary_count, available_cells) == Min2(1, available_cells)

\* variant: several primaries are not capped at available_cells - 1
MinSecondaryUncapped(primary_count, available_cells) ==
    IF primary_count = 1 THEN Min2(2, available_cells)
    ELSE Min2(primary_count, available_cells)

\* min_secondary for primary_count primaries and available_cells variables
MinSecondary(primary_count, available_cells) ==
    IF primary_count = 1 THEN Min2(2, available_cells)
    ELSE Min2(primary_count, Max2(1, available_cells - 1))

\* variant: one secondary cell is asked for every primary cell, without the
\* cap at the number of variables
InequalitiesUncapped(cs, cons) ==
    {[terms |-> SuppressionTerms(cs, cons[k]), need |-> PrimaryCount(cs, cons[k])] :
        k \in {m \in 1..Len(cons) :
                  /\ PrimaryCount(cs, cons[m]) > 0
                  /\ SuppressionTerms(cs, cons[m]) # {}}}

\* the inequalities solver.Add receives: Sum(terms) >= need
Inequalities(cs, cons) ==
    {[terms |-> SuppressionTerms(cs, cons[k]),
      need |-> MinSecondary(PrimaryCount(cs, cons[k]),
                            Cardinality(SuppressionTerms(cs, cons[k])))] :
        k \in {m \in 1..Len(cons) :
                  /\ PrimaryCount(cs, cons[m]) > 0
                  /\ SuppressionTerms(cs, cons[m]) # {}
                  /\ LET need == MinSecondary(PrimaryCount(cs, cons[m]),
                                    Cardinality(SuppressionTerms(cs, cons[m])))
                     IN need > 0 /\ need <= Cardinality(SuppressionTerms(cs, cons[m]))}}

Satisfies(S, ineqs) == \A q \in ineqs : Cardinality(S \cap q.terms) >= q.need

\* the assignments of the variables that satisfy every inequality
FeasibleSets(cs, cons) ==
    LET ineqs == Inequalities(cs, cons)
    IN {S \in SUBSET SuppressVars(cs) : Satisfies(S, ineqs)}

\* variant: every coefficient of the objective is 1
TotalCostUnit(cs, S) == Cardinality(S)

\* the objective: sum of suppression_cost over the chosen cells
RECURSIVE TotalCost(_, _)
TotalCost(cs, S) ==
    IF S = {} THEN 0
    ELSE LET x == CHOOSE y \in S : TRUE
         IN cs[x].suppression_cost + TotalCost(cs, S \ {x})

\* the assignments a solver may return with status OPTIMAL
OptimalSets(cs, cons) ==
    LET F == FeasibleSets(cs, cons)
        values == {TotalCost(cs, T) : T \in F}
        least == CHOOSE v \in values : \A w \in values : v <= w
    IN {S \in F : TotalCost(cs, S) = least}

----------------------------------------------------------------------------
(* _heuristic_secondary_suppression *)

\* index of the first cheapest cell of a non-empty list of cell ids
FirstCheapestIdx(cs, s) ==
    CHOOSE i \in 1..Len(s) :
        /\ \A k \in 1..Len(s) : cs[s[i]].suppression_cost <= cs[s[k]].suppression_cost
        /\ \A k \in 1..(i - 1) : cs[s[k]].suppression_cost > cs[s[i]].suppression_cost

\* available_cells.sort(key=cost): a stable sort, cheapest first
RECURSIVE SortByCost(_, _)
SortByCost(cs, s) ==
    IF s = <<>> THEN <<>>
    ELSE LET i == FirstCheapestIdx(cs, s)
         IN <<s[i]>> \o SortByCost(cs, RemoveAt(s, i))

\* how many of the cheapest available cells one constraint adds
HeuristicTake == 2

\* the body of the loop for one constraint
HeuristicStep(cs, c, sec) ==
    IF PrimaryCount(cs, c) > 0
    THEN LET free(id) == ~cs[id].is_primary_suppressed /\ id \notin sec
             available == SortByCost(cs, SelectSeq(c.cell_ids, free))
         IN sec \cup SeqRange(Prefix(available, HeuristicTake))
    ELSE sec

\* the loop over self.constraints from position k on
RECURSIVE HeuristicFrom(_, _, _, _)
HeuristicFrom(cs, cons, k, sec) ==
    IF k > Len(cons) THEN sec
    ELSE HeuristicFrom(cs, cons, k + 1, HeuristicStep(cs, cons[k], sec))

HeuristicSecondarySuppression(cs, cons) == HeuristicFrom(cs, cons, 1, {})

----------------------------------------------------------------------------
(* run_hypercube_suppression on a HypercubeEngine *)

NoStatistics == [method |-> "none"]

\* cell_id.split("_") has the three parts "cell", row, col
CellIdToCoord(id) == [row |-> id[2], col |-> id[3]]

\* the coordinate list built from a set of cell ids (ids that do not split
\* into three parts are skipped)
CoordList(ids) ==
    LET s == SetToSeq({id \in ids : Len(id) = 3})
    IN [k \in 1..Len(s) |-> CellIdToCoord(s[k])]

\* Step 5: the statistics dict
CompileStatistics(d, rules, primary, secondary) ==
    [total_cells |-> d.nrows * (d.ncols + d.labels),
     primary_suppressions |-> Cardinality(primary),
     secondary_suppressions |-> Cardinality(secondary),
     total_suppressions |-> Cardinality(primary) + Cardinality(secondary),
     \* a quotient, kept as <<numerator, denominator>>
     suppression_rate |-> <<Cardinality(primary) + Cardinality(secondary),
                            d.nrows * (d.ncols + d.labels)>>,
     method |-> "hypercube",
     primary_cells |-> CoordList(primary),
     secondary_cells |-> CoordList(secondary),
     protection_rules |-> [min_frequency |-> rules.min_frequency,
                           dominance_n |-> rules.dominance_n,
                           dominance_k |-> rules.dominance_k]]

\* HypercubeEngine.__init__
InitH ==
    /\ protection_rules \in RuleConfigs
    /\ cells = <<>>
    /\ constraints = <<>>
    /\ constraint_graph = NoGraph
    /\ data = NoData
    /\ primary_cells = {}
    /\ secondary_cells = {}
    /\ solver_status = "none"
    /\ strategy = "none"
    /\ statistics = NoStatistics
    /\ error = "none"
    /\ pc = "idle"
    /\ runs = 0

\* run_hypercube_suppression(d) is entered and Step 1 runs
StartRun(d) ==
    /\ data' = d
    /\ primary_cells' = IdentifyPrimarySuppressions(d, protection_rules)
    /\ secondary_cells' = {}
    /\ solver_status' = "none"
    /\ strategy' = "none"
    /\ statistics' = NoStatistics
    /\ error' = "none"
    /\ pc' = "identified"
    /\ runs' = runs + 1
    /\ UNCHANGED <<protection_rules, cells, constraints, constraint_graph>>

\* hypercube_suppress: a fresh engine runs the pipeline on a table of up to
\* n cells, on a one-row table of up to w cells, or on a table without a
\* numeric column
Identify(n, w) ==
    /\ pc = "idle"
    /\ \E d \in Tables(n) \cup WideRows(w) \cup LabelTables(n) : StartRun(d)
    /\ UNCHANGED <<rvars, pvars>>

\* hypercube_suppress on a three-by-three table with up to n special cells
IdentifyGrid(n) ==
    /\ pc = "idle"
    /\ \E d \in GridTables(n) : StartRun(d)
    /\ UNCHANGED <<rvars, pvars>>

\* HypercubeEngine.__init__ of an engine for tables with negative values
InitSignedH ==
    /\ protection_rules \in SignedRuleConfigs
    /\ cells = <<>>
    /\ constraints = <<>>
    /\ constraint_graph = NoGraph
    /\ data = NoData
    /\ primary_cells = {}
    /\ secondary_cells = {}
    /\ solver_status = "none"
    /\ strategy = "none"
    /\ statistics = NoStatistics
    /\ error = "none"
    /\ pc = "idle"
    /\ runs = 0

\* hypercube_suppress on a one-row table of up to n signed cells
IdentifySigned(n) ==
    /\ pc = "idle"
    /\ \E d \in SignedRows(n) : StartRun(d)
    /\ UNCHANGED <<rvars, pvars>>

\* hypercube_suppress on a four-by-two table with up to n special cells
IdentifyTall(n) ==
    /\ pc = "idle"
    /\ \E d \in TallTables(n) : StartRun(d)
    /\ UNCHANGED <<rvars, pvars>>

\* the tables a second call on the same engine is given: the same table,
\* its top-left cell alone, and the table with its first cell missing
RerunTables(d) ==
    IF d.ncols = 0 THEN {d}
    ELSE {d,
          [nrows |-> 1, ncols |-> 1, labels |-> 0,
           val |-> [x \in Coords(1, 1) |-> d.val[x]]],
          [d EXCEPT !.val[<<0, 0>>] = MissingCell]}

\* run_hypercube_suppression is called again on the same engine instance
IdentifyAgain ==
    /\ pc \in {"returned", "raised"}
    /\ runs < MaxRuns
    /\ \E d \in RerunTables(data) : StartRun(d)
    /\ UNCHANGED <<rvars, pvars>>

\* Step 2: build_constraint_graph
BuildConstraintGraph ==
    /\ pc = "identified"
    /\ cells' = CellsAfterBuild(cells, data, primary_cells)
    /\ constraints' = constraints \o NewConstraints(data)
    /\ constraint_graph' = BuildGraph(data, primary_cells)
    /\ pc' = "built"
    /\ UNCHANGED <<protection_rules, data, primary_cells, secondary_cells,
                   solver_status, strategy, statistics, error, runs>>
    /\ UNCHANGED <<rvars, pvars>>

Raise(e) ==
    /\ error' = e
    /\ pc' = "raised"
    /\ UNCHANGED <<protection_rules, cells, constraints, constraint_graph, data,
                   primary_cells, secondary_cells, strategy, statistics, runs>>
    /\ UNCHANGED <<rvars, pvars>>

\* variant: the call goes on with an empty heuristic set instead of raising
SolveBeforeBuildFallsBack ==
    /\ pc = "idle"
    /\ ~constraint_graph.built
    /\ solver_status' = "INFEASIBLE"
    /\ strategy' = "heuristic"
    /\ secondary_cells' = {}
    /\ pc' = "solved"
    /\ UNCHANGED <<protection_rules, cells, constraints, constraint_graph, data,
                   primary_cells, statistics, error, runs>>
    /\ UNCHANGED <<rvars, pvars>>

\* solve_secondary_suppressions is called on a new engine, before
\* build_constraint_graph: constraint_graph is None and ValueError is raised
SolveBeforeBuild ==
    /\ pc = "idle"
    /\ ~constraint_graph.built
    /\ UNCHANGED solver_status
    /\ Raise("ValueError")

\* Step 3 when CreateSolver returns None for SCIP and for CBC: the first
\* use of the solver object fails
SolverUnavailable ==
    /\ pc = "built"
    /\ constraint_graph.built
    /\ solver_status' = "UNAVAILABLE"
    /\ Raise("AttributeError")

\* Step 3 when a constraint lists a cell id that self.cells does not hold
SolveLookupFails ==
    /\ pc = "built"
    /\ constraint_graph.built
    /\ MissingCellLookup(cells, constraints)
    /\ solver_status' = "none"
    /\ Raise("KeyError")

Solved(st, how, sec) ==
    /\ solver_status' = st
    /\ strategy' = how
    /\ secondary_cells' = sec
    /\ pc' = "solved"
    /\ UNCHANGED <<protection_rules, cells, constraints, constraint_graph, data,
                   primary_cells, statistics, error, runs>>
    /\ UNCHANGED <<rvars, pvars>>

\* Step 3, status OPTIMAL: an assignment of minimum objective value
SolveOptimal ==
    /\ pc = "built"
    /\ constraint_graph.built
    /\ ~MissingCellLookup(cells, constraints)
    /\ \E S \in OptimalSets(cells, constraints) : Solved("OPTIMAL", "optimizer", S)

\* Step 3, status FEASIBLE: an assignment that satisfies the inequalities,
\* not proven optimal
SolveFeasible ==
    /\ pc = "built"
    /\ constraint_graph.built
    /\ ~MissingCellLookup(cells, constraints)
    /\ \E S \in FeasibleSets(cells, constraints) : Solved("FEASIBLE", "optimizer", S)

\* Step 3, status INFEASIBLE: the heuristic's set is returned
SolveInfeasible ==
    /\ pc = "built"
    /\ constraint_graph.built
    /\ ~MissingCellLookup(cells, constraints)
    /\ Solved("INFEASIBLE", "heuristic",
              HeuristicSecondarySuppression(cells, constraints))

\* Step 3, any other status: RuntimeError
SolveFails ==
    /\ pc = "built"
    /\ constraint_graph.built
    /\ ~MissingCellLookup(cells, constraints)
    /\ \/ solver_status' = "UNBOUNDED"
       \/ solver_status' = "ABNORMAL"
       \/ solver_status' = "NOT_SOLVED"
    /\ Raise("RuntimeError")

SolveSecondarySuppressions ==
    \/ SolverUnavailable
    \/ SolveLookupFails
    \/ SolveOptimal
    \/ SolveFeasible
    \/ SolveInfeasible
    \/ SolveFails

\* variant: the plan is compiled and returned once the graph is built, before
\* the solver step
CompileAndReturnEarly ==
    /\ pc = "built"
    /\ statistics' = CompileStatistics(data, protection_rules, primary_cells,
                                       secondary_cells)
    /\ pc' = "returned"
    /\ UNCHANGED <<protection_rules, cells, constraints, constraint_graph, data,
                   primary_cells, secondary_cells, solver_status, strategy,
                   error, runs>>
    /\ UNCHANGED <<rvars, pvars>>

\* Steps 4 and 5: apply_suppressions, the coordinate lists, the statistics
CompileAndReturn ==
    /\ pc = "solved"
    /\ statistics' = CompileStatistics(data, protection_rules, primary_cells,
                                       secondary_cells)
    /\ pc' = "returned"
    /\ UNCHANGED <<protection_rules, cells, constraints, constraint_graph, data,
                   primary_cells, secondary_cells, solver_status, strategy,
                   error, runs>>
    /\ UNCHANGED <<rvars, pvars>>

----------------------------------------------------------------------------
(* PrimarySuppressionEngine: the rule checks *)

\* a rule check that found no violation returns None
None == [none |-> TRUE]

\* ConfidentialityFlags
FREE == "F"

FEW_CONTRIBUTORS == "A"

DOM_ONE == "O"

DOM_TWO == "T"

DOM_GENERAL == "G"

P_PERCENT == "M"

SuppressionResult(flag, reason) ==
    [is_confidential |-> TRUE, flag |-> flag, reason |-> reason]

\* a list argument: None, or a list
NoList == [absent |-> TRUE, items |-> <<>>]

List(s) == [absent |-> FALSE, items |-> s]

\* truth value of a list argument: neither None nor empty
Truthy(l) == ~l.absent /\ Len(l.items) > 0

\* variant: the comparison is <= instead of <
CheckThresholdRuleLe(rules, contributors) ==
    LET num_contributors == IF Truthy(contributors) THEN Len(contributors.items) ELSE 0
    IN IF num_contributors <= rules.min_frequency
       THEN SuppressionResult(FEW_CONTRIBUTORS,
                [rule |-> "threshold", found |-> num_contributors,
                 limit |-> rules.min_frequency])
       ELSE None

\* PrimarySuppressionEngine.check_threshold_rule
CheckThresholdRule(rules, contributors) ==
    LET num_contributors == IF Truthy(contributors) THEN Len(contributors.items) ELSE 0
    IN IF num_contributors < rules.min_frequency
       THEN SuppressionResult(FEW_CONTRIBUTORS,
                [rule |-> "threshold", found |-> num_contributors,
                 limit |-> rules.min_frequency])
       ELSE None

\* (top_n_sum / cell_value) * 100 > dominance_k in IEEE doubles for
\* cell_value # 0: the exact comparison, and the triples
\* <<top_n_sum, cell_value, dominance_k>> of the model's values whose exact
\* ratio equals dominance_k but whose double-precision ratio exceeds it
DominanceRatioExceeds(top_n_sum, cell_value, k) ==
    \/ cell_value > 0 /\ top_n_sum * 100 > k * cell_value
    \/ cell_value < 0 /\ top_n_sum * 100 < k * cell_value
    \/ <<top_n_sum, cell_value, k>> \in {<<11, 20, 55>>, <<-11, -20, 55>>}

DominanceFlag(n) ==
    IF n = 1 THEN DOM_ONE ELSE IF n = 2 THEN DOM_TWO ELSE DOM_GENERAL

\* PrimarySuppressionEngine.check_dominance_rule
CheckDominanceRule(rules, cell_value, contributor_values) ==
    IF ~Truthy(contributor_values) \/ cell_value = 0 THEN None
    ELSE LET sorted_values == SortDesc(contributor_values.items)
             top_n_sum == SumSeq(Prefix(sorted_values, rules.dominance_n))
         IN IF DominanceRatioExceeds(top_n_sum, cell_value, rules.dominance_k)
            THEN SuppressionResult(DominanceFlag(rules.dominance_n),
                     [rule |-> "dominance", units |-> rules.dominance_n,
                      ratio |-> <<top_n_sum * 100, cell_value>>,
                      limit |-> rules.dominance_k])
            ELSE None

\* variant: the comparison is < instead of <=
ErrorBelowPPercent(estimated_second, second_largest, p) ==
    Abs(estimated_second - second_largest) * 100 < p * second_largest

\* abs(estimated_second - second_largest) / second_largest * 100 <= p_percent
\* for second_largest > 0 (doubles and exact arithmetic agree on the model's
\* values)
ErrorWithinPPercent(estimated_second, second_largest, p) ==
    Abs(estimated_second - second_largest) * 100 <= p * second_largest

\* PrimarySuppressionEngine.check_p_percent_rule
CheckPPercentRule(rules, cell_value, contributor_values) ==
    IF ~Truthy(contributor_values) \/ Len(contributor_values.items) < 2
       \/ cell_value = 0
    THEN None
    ELSE LET sorted_values == SortDesc(contributor_values.items)
             largest == sorted_values[1]
             second_largest == sorted_values[2]
             others_sum == IF Len(sorted_values) > 2
                           THEN SumSeq(Suffix(sorted_values, 2)) ELSE 0
             estimated_second == cell_value - largest - others_sum
         IN IF /\ second_largest > 0
               /\ ErrorWithinPPercent(estimated_second, second_largest,
                                      rules.p_percent)
            THEN SuppressionResult(P_PERCENT,
                     [rule |-> "p-percent",
                      error |-> <<Abs(estimated_second - second_largest) * 100,
                                  second_largest>>,
                      limit |-> rules.p_percent])
            ELSE None

\* variant: the dominance rule is tried before the threshold rule
EvaluateRulesDominanceFirst(rules, cell_value, contributors, contributor_values) ==
    LET r1 == CheckDominanceRule(rules, cell_value, contributor_values)
        r2 == IF r1 = None THEN CheckThresholdRule(rules, contributors) ELSE r1
    IN IF r2 = None THEN CheckPPercentRule(rules, cell_value, contributor_values)
       ELSE r2

\* the rules in priority order: threshold, dominance, p-percent
EvaluateRules(rules, cell_value, contributors, contributor_values) ==
    LET r1 == CheckThresholdRule(rules, contributors)
        r2 == IF r1 = None THEN CheckDominanceRule(rules, cell_value, contributor_values)
              ELSE r1
    IN IF r2 = None THEN CheckPPercentRule(rules, cell_value, contributor_values)
       ELSE r2

----------------------------------------------------------------------------
(* The rule checks called on their own *)

\* longest contributor list the checks are called with
MaxContributors == 3

\* contributor values and cell totals the checks are called with
ContributorValues == {-10, 1, 2, 9, 11, 16, 18}

CellTotals == {-20, 0, 20}

\* ProtectionRules the primary engine is constructed with
PrimaryRuleConfigs ==
    {[min_frequency |-> 3, dominance_n |-> 1, dominance_k |-> 80, p_percent |-> 10],
     [min_frequency |-> 0, dominance_n |-> 1, dominance_k |-> 55, p_percent |-> 10],
     [min_frequency |-> 2, dominance_n |-> 2, dominance_k |-> 80, p_percent |-> 10],
     [min_frequency |-> 2, dominance_n |-> 3, dominance_k |-> 55, p_percent |-> 0]}

SeqsUpTo(S, n) == UNION {[1..k -> S] : k \in 0..n}

\* f"contributor_{i}" for i in range(n)
ContributorIds(n) == [i \in 1..n |-> <<"contributor", i - 1>>]

NotCalled == [called |-> "none", result |-> None]

RuleIdle ==
    /\ rule_in = [rules |-> DefaultRules, cell_value |-> 0,
                  contributors |-> NoList, contributor_values |-> NoList]
    /\ rule_out = NotCalled

\* an engine with some rules, and the arguments of a call: a cell total and
\* the contributor lists (both absent, or the ids and values of the same
\* contributors)
InitRules ==
    /\ rule_in \in
          {[rules |-> r, cell_value |-> t,
            contributors |-> NoList, contributor_values |-> NoList] :
                r \in PrimaryRuleConfigs, t \in CellTotals}
          \cup
          {[rules |-> r, cell_value |-> t,
            contributors |-> List(ContributorIds(Len(v))),
            contributor_values |-> List(v)] :
                r \in PrimaryRuleConfigs, t \in CellTotals,
                v \in SeqsUpTo(ContributorValues, MaxContributors)}
    /\ rule_out = NotCalled

CallThresholdRule ==
    /\ rule_out' = [called |-> "threshold",
                    result |-> CheckThresholdRule(rule_in.rules, rule_in.contributors)]
    /\ UNCHANGED <<rule_in, hvars, pvars>>

CallDominanceRule ==
    /\ rule_out' = [called |-> "dominance",
                    result |-> CheckDominanceRule(rule_in.rules, rule_in.cell_value,
                                                  rule_in.contributor_values)]
    /\ UNCHANGED <<rule_in, hvars, pvars>>

CallPPercentRule ==
    /\ rule_out' = [called |-> "p-percent",
                    result |-> CheckPPercentRule(rule_in.rules, rule_in.cell_value,
                                                 rule_in.contributor_values)]
    /\ UNCHANGED <<rule_in, hvars, pvars>>

----------------------------------------------------------------------------
(* apply_primary_suppression_to_file *)

\* rows of the df
MaxDfRows == 2

\* the value column of the df holds these cells
DfCells == {MissingCell, NumCell(0), NumCell(4), NumCell(10), NumCell(55)}

\* thresholds of _simulate_contributors
SmallValue == 10

MediumValue == 50

\* the contributor counts np.random.choice / np.random.randint can return
ContributorCounts(cell_value) ==
    IF cell_value < SmallValue THEN {1, 2, 3}
    ELSE IF cell_value < MediumValue THEN {2, 3, 4, 5}
    ELSE 3..7

\* the lists of n positive whole numbers that sum to u
RECURSIVE Compositions(_, _)
Compositions(u, n) ==
    IF n = 1 THEN {<<u>>}
    ELSE UNION {{<<k>> \o t : t \in Compositions(u - k, n - 1)} :
                    k \in 1..(u - n + 1)}

\* the shares raw_values / raw_values.sum() are positive and sum to 1; the
\* model draws them from the multiples of 1/4 (small values) or 1/5 of the
\* cell value, so a list has at most that many contributors
ShareUnits(cell_value) == IF cell_value < SmallValue THEN 4 ELSE 5

\* PrimarySuppressionEngine._simulate_contributors: the pairs
\* (contributors, contributor_values) it can return
SimulateContributors(cell_value) ==
    {[contributors |-> List(ContributorIds(n)),
      contributor_values |->
          List(IF n = 1 THEN <<cell_value>>
               ELSE [k \in 1..n |-> (shares[k] * cell_value) \div ShareUnits(cell_value)])] :
        <<n, shares>> \in
            UNION {{<<m, sh>> : sh \in Compositions(ShareUnits(cell_value), m)} :
                        m \in {x \in ContributorCounts(cell_value) :
                                  x <= ShareUnits(cell_value)}}}

\* rules apply_primary_suppression_to_file is called with
PrimaryRunConfigs ==
    {[min_frequency |-> 3, dominance_n |-> 1, dominance_k |-> 80, p_percent |-> 10],
     [min_frequency |-> 2, dominance_n |-> 1, dominance_k |-> 55, p_percent |-> 10],
     \* under these a cell with a single contributor violates no rule
     [min_frequency |-> 1, dominance_n |-> 1, dominance_k |-> 100, p_percent |-> 10]}

\* a row of df_result as the loop finds it: not suppressed, flag FREE and
\* the empty reason '' (None here, so that it compares with a rule's reason)
FreeRow(cell) ==
    [value |-> cell, is_suppressed |-> FALSE, suppression_flag |-> FREE,
     suppression_reason |-> None]

SuppressedRow(result) ==
    [value |-> MissingCell, is_suppressed |-> TRUE, suppression_flag |-> result.flag,
     suppression_reason |-> result.reason]

\* variant: the entry carries the published (missing) value of the cell
LogEntryPublishedValue(result, idx, cell_value) ==
    [is_confidential |-> result.is_confidential, flag |-> result.flag,
     reason |-> result.reason, cell_id |-> idx, value |-> MissingCell.v]

\* a suppression_log entry: the result with cell_id = str(idx) and the value
LogEntry(result, idx, cell_value) ==
    [is_confidential |-> result.is_confidential, flag |-> result.flag,
     reason |-> result.reason, cell_id |-> idx, value |-> cell_value]

NoOutput == [none |-> TRUE]

PrimaryIdle ==
    /\ p_rules = DefaultRules
    /\ p_df = <<>>
    /\ p_idx = 0
    /\ p_result = <<>>
    /\ p_log = <<>>
    /\ p_contrib = 0
    /\ p_out = NoOutput
    /\ p_first = NoOutput
    /\ p_pc = "idle"

\* a df and rules that apply_primary_suppression_to_file is called with
InitPrimary ==
    /\ p_rules \in PrimaryRunConfigs
    /\ p_df \in UNION {[1..k -> DfCells] : k \in 1..MaxDfRows}
    /\ p_idx = 0
    /\ p_result = <<>>
    /\ p_log = <<>>
    /\ p_contrib = 0
    /\ p_out = NoOutput
    /\ p_first = NoOutput
    /\ p_pc = "idle"

\* apply_primary_suppression_to_file(df, rules) is called (again, with the
\* same df and rules): a new engine, the log cleared, df_result = df.copy()
\* with the three suppression columns
PrimaryCall ==
    /\ p_pc \in {"idle", "returned"}
    /\ p_log' = <<>>
    /\ p_result' = [k \in 1..Len(p_df) |-> FreeRow(p_df[k])]
    /\ p_contrib' = 0
    /\ p_idx' = 1
    /\ p_pc' = "loop"
    /\ p_out' = NoOutput
    /\ UNCHANGED <<p_rules, p_df, p_first, hvars, rvars>>

\* one pass of the loop body over row p_idx
PrimaryRow ==
    /\ p_pc = "loop"
    /\ p_idx <= Len(p_df)
    /\ LET cell == p_df[p_idx]
       IN IF cell.na \/ cell.v = 0
          THEN p_contrib' = 0 /\ UNCHANGED <<p_result, p_log>>
          ELSE \E c \in SimulateContributors(cell.v) :
                  LET result == EvaluateRules(p_rules, cell.v, c.contributors,
                                              c.contributor_values)
                  IN /\ p_contrib' = Len(c.contributors.items)
                     /\ IF result # None
                        THEN /\ p_log' = Append(p_log, LogEntry(result, p_idx - 1, cell.v))
                             /\ p_result' = [p_result EXCEPT ![p_idx] = SuppressedRow(result)]
                        ELSE UNCHANGED <<p_result, p_log>>
    /\ p_idx' = p_idx + 1
    /\ UNCHANGED <<p_rules, p_df, p_out, p_first, p_pc, hvars, rvars>>

\* primary_suppressed: the rows the loop suppressed
CountSuppressed(rows) == Cardinality({k \in 1..Len(rows) : rows[k].is_suppressed})

\* the summary dict, with suppression_details added by
\* apply_primary_suppression_to_file
Summary(rows, log) ==
    LET primary_suppressed == CountSuppressed(rows)
        flags == {rows[k].suppression_flag : k \in 1..Len(rows)}
        kept == SelectSeq([k \in 1..Len(rows) |-> [idx |-> k - 1, row |-> rows[k]]],
                          LAMBDA x : x.row.is_suppressed)
    IN [total_cells |-> Len(rows),
        primary_suppressed |-> primary_suppressed,
        safe_cells |-> Len(rows) - primary_suppressed,
        \* a percentage, kept as <<numerator, denominator>>
        suppression_rate |-> IF Len(rows) > 0
                             THEN <<primary_suppressed * 100, Len(rows)>> ELSE <<0, 1>>,
        primary_cells |-> [k \in 1..Len(kept) |-> [row |-> kept[k].idx, col |-> 0]],
        suppressions_by_flag |->
            [f \in flags |-> Cardinality({k \in 1..Len(rows) :
                                              rows[k].suppression_flag = f})],
        suppression_details |->
            [k \in 1..Len(log) |-> [cell_id |-> log[k].cell_id, value |-> log[k].value,
                                    flag |-> log[k].flag, reason |-> log[k].reason]]]

\* the loop is over: the summary is built and the call returns
PrimaryReturn ==
    /\ p_pc = "loop"
    /\ p_idx > Len(p_df)
    /\ p_out' = [df_suppressed |-> p_result, summary |-> Summary(p_result, p_log)]
    /\ p_first' = IF p_first = NoOutput THEN p_out' ELSE p_first
    /\ p_pc' = "returned"
    /\ p_contrib' = 0
    /\ UNCHANGED <<p_rules, p_df, p_idx, p_result, p_log, hvars, rvars>>

----------------------------------------------------------------------------
(* Specifications *)

Init == InitH /\ RuleIdle /\ PrimaryIdle

Next ==
    \/ Identify(MaxCells, MaxWide)
    \/ BuildConstraintGraph
    \/ SolveSecondarySuppressions
    \/ CompileAndReturn
    \/ SolveBeforeBuild

\* a fresh engine: one call of hypercube_suppress, or a call of
\* solve_secondary_suppressions before anything else
Spec == Init /\ [][Next]_vars

NextReuse ==
    \/ Identify(MaxReuseCells, 0)
    \/ IdentifyAgain
    \/ BuildConstraintGraph
    \/ SolveSecondarySuppressions
    \/ CompileAndReturn

NextGrid ==
    \/ IdentifyGrid(MaxSpecial)
    \/ BuildConstraintGraph
    \/ SolveSecondarySuppressions
    \/ CompileAndReturn

\* hypercube_suppress: one call on a three-by-three table
SpecGrid == Init /\ [][NextGrid]_vars

NextTall ==
    \/ IdentifyTall(MaxTallSpecial)
    \/ BuildConstraintGraph
    \/ SolveSecondarySuppressions
    \/ CompileAndReturn

\* hypercube_suppress: one call on a four-by-two table
SpecTall == Init /\ [][NextTall]_vars

InitSigned == InitSignedH /\ RuleIdle /\ PrimaryIdle

NextSigned ==
    \/ IdentifySigned(MaxSigned)
    \/ BuildConstraintGraph
    \/ SolveSecondarySuppressions
    \/ CompileAndReturn

\* hypercube_suppress: one call on a one-row table with negative and zero
\* values
SpecSigned == InitSigned /\ [][NextSigned]_vars

\* a HypercubeEngine instance that run_hypercube_suppression is called on
\* more than once
SpecReuse == Init /\ [][NextReuse]_vars

HypercubeIdle ==
    /\ protection_rules = DefaultRules
    /\ cells = <<>>
    /\ constraints = <<>>
    /\ constraint_graph = NoGraph
    /\ data = NoData
    /\ primary_cells = {}
    /\ secondary_cells = {}
    /\ solver_status = "none"
    /\ strategy = "none"
    /\ statistics = NoStatistics
    /\ error = "none"
    /\ pc = "idle"
    /\ runs = 0

InitRuleChecks == HypercubeIdle /\ InitRules /\ PrimaryIdle

NextRules ==
    \/ CallThresholdRule
    \/ CallDominanceRule
    \/ CallPPercentRule

\* the three rule checks of PrimarySuppressionEngine, each called on its own
SpecRules == InitRuleChecks /\ [][NextRules]_vars

InitPrimaryRun == HypercubeIdle /\ RuleIdle /\ InitPrimary

NextPrimary ==
    \/ PrimaryCall
    \/ PrimaryRow
    \/ PrimaryReturn

\* apply_primary_suppression_to_file, called repeatedly on one df and rules
SpecPrimary == InitPrimaryRun /\ [][NextPrimary]_vars

----------------------------------------------------------------------------
(* Properties *)

\* a call of the pipeline has a secondary set
HasPlan == pc \in {"solved", "returned"}

\* the cells of constraint c that are in the set T
CountIn(c, T) == Cardinality({n \in 1..Len(c.cell_ids) : c.cell_ids[n] \in T})

\* P: primary-suppressed cells of c
PrimariesIn(c) == CountIn(c, {id \in DOMAIN cells : cells[id].is_primary_suppressed})

\* A: non-primary cells of c
AvailableIn(c) == CountIn(c, {id \in DOMAIN cells : ~cells[id].is_primary_suppressed})

SecondariesIn(c) == CountIn(c, secondary_cells)

\* the adequacy value of section 4.4 for P >= 1
AdequacyValue(P, A) ==
    IF P = 1 THEN (IF A < 2 THEN A ELSE 2)
    ELSE LET cap == IF A - 1 > 1 THEN A - 1 ELSE 1 IN IF P < cap THEN P ELSE cap

\* C1 as claimed: every secondary set, from the optimizer or from the
\* heuristic, holds in every constraint with P >= 1 primaries and A
\* non-primary cells at least the adequacy value of secondary cells.
C1_AdequacyEverywhere ==
    HasPlan =>
        \A k \in 1..Len(constraints) :
            PrimariesIn(constraints[k]) >= 1 =>
                SecondariesIn(constraints[k]) >=
                    AdequacyValue(PrimariesIn(constraints[k]), AvailableIn(constraints[k]))

\* C1 amended: a set produced by the optimizer holds at least the adequacy
\* value of secondary cells in every constraint with P >= 1 primaries and
\* A >= 1 non-primary cells; a set produced by the heuristic holds at least
\* min(2, A) secondary cells in every constraint with P >= 1.
C1_AdequacyWhereGuaranteed ==
    HasPlan =>
        \A k \in 1..Len(constraints) :
            LET P == PrimariesIn(constraints[k])
                A == AvailableIn(constraints[k])
                S == SecondariesIn(constraints[k])
            IN P >= 1 =>
                  /\ (strategy = "optimizer" /\ A >= 1) => S >= AdequacyValue(P, A)
                  /\ strategy = "heuristic" => S >= (IF A < 2 THEN A ELSE 2)

\* an optimizer plan in which a constraint with two or more primaries and
\* three or more other cells got its two secondary cells
C1_Witness ==
    /\ HasPlan
    /\ strategy = "optimizer"
    /\ \E k \in 1..Len(constraints) :
          /\ PrimariesIn(constraints[k]) >= 2
          /\ AvailableIn(constraints[k]) >= 3
          /\ SecondariesIn(constraints[k]) = 2

\* C2 as claimed: every solver outcome other than a usable solution is
\* non-fatal: the call does not raise and goes on with the heuristic's set.
C2_SolverFailureNonFatal ==
    solver_status \in {"INFEASIBLE", "UNBOUNDED", "ABNORMAL", "NOT_SOLVED", "UNAVAILABLE"} =>
        /\ error = "none"
        /\ HasPlan
        /\ strategy = "heuristic"

\* the strategy a returned plan names
RecordedStrategy(plan) ==
    IF "strategy" \in DOMAIN plan THEN plan.strategy ELSE plan.method

\* C3 as claimed: the returned statistics say "heuristic" when the heuristic
\* produced the secondary set and "optimal" when the optimizer did.
C3_StrategyRecorded ==
    pc = "returned" =>
        /\ strategy = "heuristic" => RecordedStrategy(statistics) = "heuristic"
        /\ strategy = "optimizer" => RecordedStrategy(statistics) = "optimal"

\* audit-log entries of the row with index idx
LogEntriesOf(idx) == {k \in 1..Len(p_log) : p_log[k].cell_id = idx}

\* C4: each suppressed row has exactly one audit-log entry, which carries
\* the row's flag and reason, a row that is not suppressed has none, and a
\* row evaluated with fewer contributors than min_frequency is flagged
\* FewContributors, never with a dominance or p-percent flag.
C4_FirstViolationOnly ==
    p_pc \in {"loop", "returned"} =>
        /\ \A k \in 1..Len(p_result) :
              /\ Cardinality(LogEntriesOf(k - 1)) = (IF p_result[k].is_suppressed THEN 1 ELSE 0)
              /\ \A e \in LogEntriesOf(k - 1) :
                    /\ p_log[e].flag = p_result[k].suppression_flag
                    /\ p_log[e].reason = p_result[k].suppression_reason
        /\ (p_idx > 1 /\ p_contrib > 0 /\ p_contrib < p_rules.min_frequency) =>
              /\ p_result[p_idx - 1].is_suppressed
              /\ p_result[p_idx - 1].suppression_flag = FEW_CONTRIBUTORS
              /\ p_result[p_idx - 1].suppression_reason.rule = "threshold"

\* a cell with a single contributor (which also holds 100% of the total)
\* under min_frequency 3 and dominance (1, 80) was flagged FewContributors
C4_Witness ==
    /\ p_pc = "loop"
    /\ p_idx > 1
    /\ p_contrib = 1
    /\ p_rules.min_frequency = 3
    /\ p_rules.dominance_n = 1
    /\ p_result[p_idx - 1].suppression_flag = FEW_CONTRIBUTORS
    /\ Len(p_log) = 1

\* C5 as claimed: a second call on the identical table with the identical
\* configuration returns what the first call returned (suppressed table
\* and statistics).
C5_SameInputSameOutput == p_pc = "returned" => p_out = p_first

\* the sum of the n largest entries of a list of numbers
TopSum(values, n) ==
    LET m == IF n < Len(values) THEN n ELSE Len(values)
        picks == {I \in SUBSET (1..Len(values)) : Cardinality(I) = m}
        sum(I) == SumSeq([k \in 1..Len(values) |-> IF k \in I THEN values[k] ELSE 0])
    IN IF m <= 0 THEN 0
       ELSE CHOOSE x \in {sum(I) : I \in picks} : \A I \in picks : sum(I) <= x

\* C6 as claimed: check_dominance_rule reports a violation exactly when the
\* total is positive and the dominance_n largest contributors hold strictly
\* more than dominance_k percent of it, and then flags it by dominance_n.
C6_DominanceExactlyAboveK ==
    rule_out.called = "dominance" =>
        LET total == rule_in.cell_value
            values == rule_in.contributor_values.items
            n == rule_in.rules.dominance_n
        IN /\ (rule_out.result # None) <=>
                  (total > 0 /\ TopSum(values, n) * 100 > rule_in.rules.dominance_k * total)
           /\ rule_out.result # None =>
                  rule_out.result.flag =
                      (IF n = 1 THEN "O" ELSE IF n = 2 THEN "T" ELSE "G")

\* number of contributors of a list argument (0 for None)
ContributorCount(l) == IF l.absent THEN 0 ELSE Len(l.items)

\* C7 as claimed: check_threshold_rule reports FewContributors exactly when
\* the contributor count is below min_frequency, and a cell with zero
\* contributors violates for every configured min_frequency.
C7_ZeroAlwaysViolates ==
    rule_out.called = "threshold" =>
        /\ (rule_out.result # None) <=>
              ContributorCount(rule_in.contributors) < rule_in.rules.min_frequency
        /\ ContributorCount(rule_in.contributors) = 0 => rule_out.result # None

\* C7 amended: check_threshold_rule reports FewContributors exactly when the
\* contributor count is below min_frequency; a cell with zero contributors
\* violates for every min_frequency >= 1.
C7_ThresholdExactlyBelowMin ==
    rule_out.called = "threshold" =>
        /\ (rule_out.result # None) <=>
              ContributorCount(rule_in.contributors) < rule_in.rules.min_frequency
        /\ rule_out.result # None => rule_out.result.flag = "A"
        /\ (ContributorCount(rule_in.contributors) = 0 /\ rule_in.rules.min_frequency >= 1)
              => rule_out.result # None

\* the check reported an absent or empty contributor list under a positive
\* min_frequency
C7_Witness ==
    /\ rule_out.called = "threshold"
    /\ ContributorCount(rule_in.contributors) = 0
    /\ rule_in.rules.min_frequency >= 1
    /\ rule_out.result # None

\* the largest entry of a non-empty list
Largest(values) == CHOOSE x \in SeqRange(values) : \A y \in SeqRange(values) : y <= x

\* the second-largest entry of a list of two or more entries
SecondLargest(values) ==
    LET i == CHOOSE k \in 1..Len(values) : values[k] = Largest(values)
    IN Largest(RemoveAt(values, i))

\* the p-percent condition of section 4.1 on a total and two or more values
PPercentCondition(total, values, p) ==
    LET second == SecondLargest(values)
        \* total - largest - sum of the contributors other than the two largest
        estimate == total - Largest(values)
                    - (SumSeq(values) - Largest(values) - second)
    IN /\ second > 0
       /\ (IF estimate >= second THEN estimate - second ELSE second - estimate) * 100
              <= p * second

\* C8 as claimed: check_p_percent_rule reports PPercentRisk exactly when
\* there are two or more contributors, the second-largest value is positive
\* and the estimate's relative error is at most p_percent.
C8_PPercentExactly ==
    rule_out.called = "p-percent" =>
        ((rule_out.result # None) <=>
            /\ Len(rule_in.contributor_values.items) >= 2
            /\ PPercentCondition(rule_in.cell_value, rule_in.contributor_values.items,
                                 rule_in.rules.p_percent))

\* C8 amended: the same, for a cell total other than zero; for a zero total
\* the check never reports a violation.
C8_PPercentExactlyNonZeroTotal ==
    rule_out.called = "p-percent" =>
        /\ (rule_out.result # None) <=>
              /\ rule_in.cell_value # 0
              /\ Len(rule_in.contributor_values.items) >= 2
              /\ PPercentCondition(rule_in.cell_value, rule_in.contributor_values.items,
                                   rule_in.rules.p_percent)
        /\ rule_out.result # None => rule_out.result.flag = "M"

\* the check reported three contributors whose values sum to the total
C8_Witness ==
    /\ rule_out.called = "p-percent"
    /\ rule_out.result # None
    /\ Len(rule_in.contributor_values.items) = 3
    /\ SumSeq(rule_in.contributor_values.items) = rule_in.cell_value

\* C9 as claimed: no cell of a plan is both primary and secondary, and
\* every secondary cell is a numeric cell of the table of the call.
C9_SecondaryAmongTableCells ==
    HasPlan =>
        /\ secondary_cells \cap primary_cells = {}
        /\ secondary_cells \subseteq NumericIds(data)

\* the subsets of the non-primary cells that satisfy the inequality of
\* every constraint with primaries and at least one non-primary cell
AdequateSets ==
    {T \in SUBSET {id \in DOMAIN cells : ~cells[id].is_primary_suppressed} :
        \A k \in 1..Len(constraints) :
            (PrimariesIn(constraints[k]) >= 1 /\ AvailableIn(constraints[k]) >= 1) =>
                CountIn(constraints[k], T) >=
                    AdequacyValue(PrimariesIn(constraints[k]), AvailableIn(constraints[k]))}

\* total suppression_cost of a set of cells
RECURSIVE CostOf(_)
CostOf(T) ==
    IF T = {} THEN 0
    ELSE LET x == CHOOSE y \in T : TRUE IN cells[x].suppression_cost + CostOf(T \ {x})

BelowThreshold == {x \in NumericCoords(data) : data.val[x].v < protection_rules.min_frequency}

\* the other numeric cells of the row, and of the column, of cell x
OthersInRow(x) == {y \in NumericCoords(data) : y[1] = x[1] /\ y # x}

OthersInColumn(x) == {y \in NumericCoords(data) : y[2] = x[2] /\ y # x}

SecondaryInRow(i) == {id \in secondary_cells : id[2] = i}

SecondaryInColumn(j) == {id \in secondary_cells : id[3] = j}

\* C11 as claimed: when exactly one cell of the table is below min_frequency
\* and its row and its column each hold two or more other numeric cells,
\* the plan has the cell in the primary set and two or more secondary cells
\* in its row and in its column.
C11_TwoCompanionsEachWay ==
    HasPlan =>
        \A x \in NumericCoords(data) :
            (/\ BelowThreshold = {x}
             /\ Cardinality(OthersInRow(x)) >= 2
             /\ Cardinality(OthersInColumn(x)) >= 2)
            => /\ CellId(x[1], x[2]) \in primary_cells
               /\ Cardinality(SecondaryInRow(x[1])) >= 2
               /\ Cardinality(SecondaryInColumn(x[2])) >= 2

\* C11 amended: the same, when no other cell of the row or of the column of
\* that cell is primary-suppressed (by the dominance or the p-percent rule).
C11_TwoCompanionsWhenOnlyPrimary ==
    HasPlan =>
        \A x \in NumericCoords(data) :
            (/\ BelowThreshold = {x}
             /\ Cardinality(OthersInRow(x)) >= 2
             /\ Cardinality(OthersInColumn(x)) >= 2)
            => /\ CellId(x[1], x[2]) \in primary_cells
               /\ (\A y \in OthersInRow(x) \cup OthersInColumn(x) :
                       CellId(y[1], y[2]) \notin primary_cells)
                  => /\ Cardinality(SecondaryInRow(x[1])) >= 2
                     /\ Cardinality(SecondaryInColumn(x[2])) >= 2

\* a plan for a three-by-three table whose only primary cell is the one cell
\* below min_frequency, with two secondary cells in its row and two in its
\* column
C11_Witness ==
    /\ HasPlan
    /\ data.nrows = 3
    /\ data.ncols = 3
    /\ \E x \in NumericCoords(data) :
          /\ BelowThreshold = {x}
          /\ primary_cells = {CellId(x[1], x[2])}
          /\ Cardinality(SecondaryInRow(x[1])) = 2
          /\ Cardinality(SecondaryInColumn(x[2])) = 2

\* C12 as claimed: from the build step of a second or later run on, the
\* engine's constraints are exactly the row and column constraints of the
\* current table and its cells exactly the numeric cells of the current
\* table, and the secondary set is one a fresh engine gives for that table.
C12_NothingPersists ==
    (runs >= 2 /\ pc \in {"built", "solved", "returned"}) =>
        /\ constraints = NewConstraints(data)
        /\ DOMAIN cells = NumericIds(data)
        /\ (HasPlan /\ strategy = "optimizer") =>
              secondary_cells \in FeasibleSets(CellsAfterBuild(<<>>, data, primary_cells),
                                               NewConstraints(data))
        /\ (HasPlan /\ strategy = "heuristic") =>
              secondary_cells =
                  HeuristicSecondarySuppression(CellsAfterBuild(<<>>, data, primary_cells),
                                                NewConstraints(data))

\* the engine has built cells and constraints for the current table
GraphBuilt == pc \in {"built", "solved", "returned"}

C14_SolveBeforeBuildFatal ==
    [][(pc = "idle" /\ ~constraint_graph.built /\ pc' # "identified") =>
          /\ pc' = "raised"
          /\ error' = "ValueError"
          /\ solver_status' = "none"
          /\ strategy' = "none"
          /\ secondary_cells' = {}
          /\ cells' = cells
          /\ constraints' = constraints
          /\ constraint_graph' = constraint_graph]_vars

\* the call was made and raised
C14_Witness ==
    /\ pc = "raised"
    /\ error = "ValueError"
    /\ ~constraint_graph.built

\* a configuration inside the documented ranges
ValidConfig(rules) ==
    /\ rules.min_frequency >= 0
    /\ rules.dominance_n >= 0
    /\ rules.dominance_k > 0 /\ rules.dominance_k <= 100
    /\ rules.p_percent > 0 /\ rules.p_percent <= 100

\* C15: no rule check is ever made by an engine whose configuration is
\* outside the documented ranges (negative min_frequency or dominance_n,
\* dominance_k or p_percent outside (0, 100]).
C15_InvalidConfigNeverEvaluated ==
    rule_out.called # "none" => ValidConfig(rule_in.rules)

\* the table of the run has rows but no numeric column
NoNumericColumns == data.nrows >= 1 /\ data.ncols = 0

\* C16: a run on a table without numeric columns never returns a plan;
\* it can only end raised.
C16_NoNumericColumnsFatal ==
    (NoNumericColumns /\ pc # "idle") => pc # "returned"

\* C17: a caller of run_hypercube_suppression receives a plan only from a
\* run that went through every step without an error: the primary set is
\* the set of all violating cells of the table, the secondary set is the
\* one the solver step produced (a set satisfying every inequality, or the
\* heuristic's set), and the statistics are those of these two sets. A run
\* that raised, or that has not finished, has handed out no plan.
C17_CompletePlanOrRaise ==
    /\ pc # "returned" => statistics = NoStatistics
    /\ pc = "raised" => error # "none"
    /\ pc = "returned" =>
          /\ error = "none"
          /\ strategy \in {"optimizer", "heuristic"}
          /\ solver_status \in {"OPTIMAL", "FEASIBLE", "INFEASIBLE"}
          /\ primary_cells = IdentifyPrimarySuppressions(data, protection_rules)
          /\ strategy = "optimizer" =>
                /\ secondary_cells \subseteq SuppressVars(cells)
                /\ Satisfies(secondary_cells, Inequalities(cells, constraints))
          /\ strategy = "heuristic" =>
                secondary_cells = HeuristicSecondarySuppression(cells, constraints)
          /\ statistics.primary_cells = CoordList(primary_cells)
          /\ statistics.secondary_cells = CoordList(secondary_cells)
          /\ statistics.primary_suppressions = Cardinality(primary_cells)
          /\ statistics.secondary_suppressions = Cardinality(secondary_cells)
          /\ statistics.total_suppressions =
                Cardinality(primary_cells) + Cardinality(secondary_cells)
          /\ statistics.suppression_rate[1] = statistics.total_suppressions
          /\ statistics.suppression_rate[2] = statistics.total_cells

\* a returned plan with primary and secondary cells
C17_Witness ==
    /\ pc = "returned"
    /\ primary_cells # {}
    /\ secondary_cells # {}

\* the constraints of one type whose cell list holds the cell
ConstraintsHolding(id, type) ==
    {k \in 1..Len(constraints) :
        /\ constraints[k].constraint_type = type
        /\ id \in SeqRange(constraints[k].cell_ids)}

\* C18: once the graph is built, every entry of the cells map is in the
\* cell list of exactly one row constraint and of exactly one column
\* constraint.
C18_OneRowOneColumnConstraint ==
    GraphBuilt =>
        \A id \in DOMAIN cells :
            /\ Cardinality(ConstraintsHolding(id, "row")) = 1
            /\ Cardinality(ConstraintsHolding(id, "column")) = 1

\* C19: when apply_primary_suppression has returned, a suppressed row is a
\* row whose value was present and non-zero, its published value is
\* missing, and exactly one audit-log entry names it, with the row's flag
\* and reason and the value the row had; a row that is not suppressed has
\* the value it had, flag FREE, no reason and no audit-log entry; rows
\* whose value is missing or zero are not suppressed; the audit log (and
\* the details list made from it) is as long as the reported suppressed
\* count. In the loop, a row evaluated with fewer contributors than
\* min_frequency is suppressed, and a missing or zero row is left alone.
C19_SuppressedHiddenAndLogged ==
    /\ p_pc = "returned" =>
          /\ \A k \in 1..Len(p_df) :
                LET row == p_out.df_suppressed[k]
                    cell == p_df[k]
                IN /\ row.is_suppressed =>
                         /\ ~cell.na /\ cell.v # 0
                         /\ row.value = MissingCell
                         /\ row.suppression_flag # FREE
                         /\ row.suppression_reason # None
                         /\ \E e \in 1..Len(p_log) :
                               /\ LogEntriesOf(k - 1) = {e}
                               /\ p_log[e].value = cell.v
                               /\ p_log[e].flag = row.suppression_flag
                               /\ p_log[e].reason = row.suppression_reason
                   /\ ~row.is_suppressed =>
                         /\ row = FreeRow(cell)
                         /\ LogEntriesOf(k - 1) = {}
          /\ Len(p_log) = p_out.summary.primary_suppressed
          /\ Len(p_out.summary.suppression_details) = p_out.summary.primary_suppressed
          /\ \A e \in 1..Len(p_log) :
                p_out.summary.suppression_details[e].value = p_log[e].value
    /\ (p_pc = "loop" /\ p_idx > 1) =>
          LET row == p_result[p_idx - 1]
              cell == p_df[p_idx - 1]
          IN /\ (cell.na \/ cell.v = 0) => row = FreeRow(cell)
             /\ (p_contrib > 0 /\ p_contrib < p_rules.min_frequency) =>
                   row.is_suppressed /\ row.value = MissingCell

\* a returned table with a suppressed row and an evaluated row that
\* violated no rule
C19_Witness ==
    /\ p_pc = "returned"
    /\ \E k \in 1..Len(p_df) : p_out.df_suppressed[k].is_suppressed
    /\ \E k \in 1..Len(p_df) :
          /\ ~p_df[k].na /\ p_df[k].v # 0
          /\ ~p_out.df_suppressed[k].is_suppressed

\* what build_constraint_graph leaves for the table of the run: a cell for
\* every present value, flagged primary exactly when it is in the primary
\* set, and the row and column constraints of the table
BuildComplete ==
    /\ constraint_graph.built
    /\ \A id \in NumericIds(data) :
          /\ id \in DOMAIN cells
          /\ cells[id].is_primary_suppressed <=> id \in primary_cells
    /\ \A i \in 0..(data.nrows - 1) : RowConstraint(data, i) \in SeqRange(constraints)
    /\ \A j \in 0..(data.ncols - 1) : ColConstraint(data, j) \in SeqRange(constraints)

\* C20: the steps of a run follow one another with complete inputs. The
\* graph is built only from the identified state, where the primary set is
\* the full set of violating cells; the solver step starts only from the
\* built state, where cells, constraints and graph are complete and every
\* cell carries its membership of the primary set; the solver step changes
\* none of them; and the primary set stays what identification made it
\* for the rest of the run.
C20_StagesInSequence ==
    /\ [](pc = "identified" =>
             primary_cells = IdentifyPrimarySuppressions(data, protection_rules))
    /\ [](pc = "built" => BuildComplete)
    /\ [][/\ pc' = "built" => pc = "identified"
          /\ pc' = "solved" =>
                /\ pc = "built"
                /\ cells' = cells
                /\ constraints' = constraints
                /\ constraint_graph' = constraint_graph
          /\ pc' = "returned" => pc = "solved"
          /\ pc \in {"identified", "built", "solved"} =>
                /\ primary_cells' = primary_cells
                /\ data' = data
                /\ protection_rules' = protection_rules]_vars

\* the optimizer has solved a graph with two or more primary cells
C20_Witness ==
    /\ pc = "solved"
    /\ strategy = "optimizer"
    /\ Cardinality(primary_cells) >= 2
    /\ secondary_cells # {}

\* the coordinate list has exactly one entry for every member of the set,
\* and no other entry
ListsExactly(coords, ids) ==
    /\ Len(coords) = Cardinality(ids)
    /\ \A id \in ids :
          Cardinality({k \in 1..Len(coords) : coords[k] = CellIdToCoord(id)}) = 1

\* C21: the statistics of a returned plan for a non-empty table agree with
\* the final sets: total_suppressions is the sum of the two counts and the
\* size of the union of the two sets, each coordinate list has exactly one
\* entry per member of its set, and suppression_rate is total_suppressions
\* over total_cells and lies between 0 and 1.
C21_StatisticsConsistent ==
    (pc = "returned" /\ statistics.total_cells > 0) =>
        /\ statistics.primary_suppressions = Cardinality(primary_cells)
        /\ statistics.secondary_suppressions = Cardinality(secondary_cells)
        /\ statistics.total_suppressions =
              statistics.primary_suppressions + statistics.secondary_suppressions
        /\ statistics.total_suppressions =
              Cardinality(primary_cells \cup secondary_cells)
        /\ ListsExactly(statistics.primary_cells, primary_cells)
        /\ ListsExactly(statistics.secondary_cells, secondary_cells)
        /\ statistics.suppression_rate =
              <<statistics.total_suppressions, statistics.total_cells>>
        /\ statistics.suppression_rate[1] >= 0
        /\ statistics.suppression_rate[1] <= statistics.suppression_rate[2]

\* the heuristic's set when its loop has gone through the first k constraints
HeuristicAfter(k) == HeuristicFrom(cells, SubSeq(constraints, 1, k), 1, {})

\* C22: in a heuristic run, a constraint without primary cells, or one that
\* already holds its adequacy value of secondary cells when the loop
\* reaches it, adds nothing; any other constraint adds its two cheapest
\* cells (all of them if fewer than two) among those that are neither
\* primary nor already chosen; and running the heuristic again on the same
\* cells and constraints gives the set the run returned.
C22_HeuristicOnlyWhereLacking ==
    (HasPlan /\ strategy = "heuristic") =>
        /\ secondary_cells = HeuristicSecondarySuppression(cells, constraints)
        /\ \A k \in 1..Len(constraints) :
              LET c == constraints[k]
                  before == HeuristicAfter(k - 1)
                  added == HeuristicAfter(k) \ before
                  terms == SuppressionTerms(cells, c)
                  P == PrimaryCount(cells, c)
                  eligible == terms \ before
                  lacking == /\ P > 0
                             /\ Cardinality(before \cap terms)
                                   < AdequacyValue(P, Cardinality(terms))
              IN /\ before \subseteq HeuristicAfter(k)
                 /\ added \subseteq eligible
                 /\ ~lacking => added = {}
                 /\ lacking =>
                       /\ Cardinality(added) = Min2(HeuristicTake, Cardinality(eligible))
                       /\ \A x \in added : \A y \in eligible \ added :
                             cells[x].suppression_cost <= cells[y].suppression_cost

\* C23: when the heuristic produced the secondary set, every constraint with
\* P >= 1 primaries and A >= 1 non-primary cells holds at least the adequacy
\* value of secondary cells: min(2, A) for P = 1, min(P, max(1, A - 1)) for
\* P >= 2.
C23_HeuristicAdequate ==
    (HasPlan /\ strategy = "heuristic") =>
        \A k \in 1..Len(constraints) :
            (PrimariesIn(constraints[k]) >= 1 /\ AvailableIn(constraints[k]) >= 1) =>
                SecondariesIn(constraints[k]) >=
                    AdequacyValue(PrimariesIn(constraints[k]), AvailableIn(constraints[k]))

\* the call's contributor values are two or more, sum exactly to the cell
\* total, and the second-largest of them is positive
ExactContributors ==
    /\ ~rule_in.contributor_values.absent
    /\ Len(rule_in.contributor_values.items) >= 2
    /\ SumSeq(rule_in.contributor_values.items) = rule_in.cell_value
    /\ SecondLargest(rule_in.contributor_values.items) > 0

\* C24 as claimed: check_p_percent_rule reports PPercentRisk whenever the
\* contributor values sum exactly to the cell total, there are two or more
\* of them and the second-largest is positive, whatever p_percent >= 0 is.
C24_ExactSumAlwaysReported ==
    (rule_out.called = "p-percent" /\ ExactContributors) =>
        /\ rule_out.result # None
        /\ rule_out.result.flag = P_PERCENT

\* C24 amended: the same for a cell total other than zero, where the
\* reported error is 0 and the rules taken in order (threshold, dominance,
\* p-percent) never leave the cell without a verdict; for a zero total the
\* check reports nothing.
C24_ExactSumReportedNonZeroTotal ==
    (rule_out.called = "p-percent" /\ ExactContributors) =>
        IF rule_in.cell_value = 0 THEN rule_out.result = None
        ELSE /\ rule_out.result # None
             /\ rule_out.result.flag = P_PERCENT
             /\ rule_out.result.reason.error[1] = 0
             /\ EvaluateRules(rule_in.rules, rule_in.cell_value, rule_in.contributors,
                              rule_in.contributor_values) # None

\* the check reported contributors that sum to the total under p_percent = 0
C24_Witness ==
    /\ rule_out.called = "p-percent"
    /\ ExactContributors
    /\ rule_in.cell_value # 0
    /\ rule_in.rules.p_percent = 0
    /\ rule_out.result # None

\* the constraints whose cell list holds both cells
SharedConstraints(a, b) ==
    {k \in 1..Len(constraints) :
        {a, b} \subseteq SeqRange(constraints[k].cell_ids)}

\* C25: the graph that build_constraint_graph leaves has the present cells
\* of the table as its nodes and no others, every node has the value,
\* cost, is_primary, row and col of its cell, and two distinct nodes are
\* joined by an edge exactly when a constraint lists both, the edge
\* carrying that constraint's id and type.
C25_GraphMatchesCells ==
    pc = "built" =>
        LET G == constraint_graph
        IN /\ DOMAIN G.nodes = NumericIds(data)
           /\ \A id \in DOMAIN G.nodes :
                 /\ G.nodes[id].has
                 /\ G.nodes[id].value = cells[id].value
                 /\ G.nodes[id].cost = cells[id].suppression_cost
                 /\ G.nodes[id].is_primary = cells[id].is_primary_suppressed
                 /\ G.nodes[id].row = cells[id].row_idx
                 /\ G.nodes[id].col = cells[id].col_idx
           /\ \A a \in DOMAIN G.nodes : \A b \in DOMAIN G.nodes \ {a} :
                 (\E e \in G.edges : e.ends = {a, b}) <=> SharedConstraints(a, b) # {}
           /\ \A e \in G.edges : \E k \in 1..Len(constraints) :
                 /\ e.ends \subseteq SeqRange(constraints[k].cell_ids)
                 /\ e.constraint_id = constraints[k].constraint_id
                 /\ e.constraint_type = constraints[k].constraint_type

\* C26: the costs build_constraint_graph assigns are never negative, and a
\* cell whose value has the smaller (or the same) magnitude never costs
\* more than the other.
C26_CostMonotonicInMagnitude ==
    pc = "built" =>
        \A a \in NumericIds(data) :
            /\ cells[a].suppression_cost >= 0
            /\ \A b \in NumericIds(data) :
                  Abs(cells[a].value) <= Abs(cells[b].value) =>
                      cells[a].suppression_cost <= cells[b].suppression_cost

\* C27: whenever the integer program can be built (no constraint lists a
\* cell the cells map lacks), each of its inequalities asks for at least one
\* and at most as many cells as it has variables, and the set of all
\* non-primary cells satisfies every inequality: the program has a
\* solution, also in the runs where the solver answered INFEASIBLE.
C27_ProgramAlwaysFeasible ==
    ((pc = "built" \/ solver_status = "INFEASIBLE")
        /\ ~MissingCellLookup(cells, constraints)) =>
        /\ \A q \in Inequalities(cells, constraints) :
              /\ q.terms \subseteq SuppressVars(cells)
              /\ q.need >= 1
              /\ q.need <= Cardinality(q.terms)
        /\ Satisfies(SuppressVars(cells), Inequalities(cells, constraints))

\* a built program with an inequality that asks for two or more cells and
\* for every variable it has
C27_Witness ==
    /\ pc = "built"
    /\ ~MissingCellLookup(cells, constraints)
    /\ \E q \in Inequalities(cells, constraints) :
          q.need >= 2 /\ q.need = Cardinality(q.terms)

\* C28: once the graph is built, every cell id that a constraint lists is a
\* key of the cells map, and no run ends in a failed lookup of a cell.
C28_ConstraintCellsKnown ==
    /\ GraphBuilt =>
          \A k \in 1..Len(constraints) :
              SeqRange(constraints[k].cell_ids) \subseteq DOMAIN cells
    /\ error # "KeyError"

\* C29: a plan whose primary set is empty has an empty secondary set, when
\* the solver proved its answer optimal or the heuristic produced the set.
C29_NoPrimaryNoSecondary ==
    (HasPlan /\ primary_cells = {} /\ solver_status \in {"OPTIMAL", "INFEASIBLE"}) =>
        secondary_cells = {}

\* the numeric cells that violate the frequency rule or the dominance rule
FrequencyOrDominance(d, rules) ==
    {CellId(x[1], x[2]) : x \in
        {y \in NumericCoords(d) :
            \/ d.val[y].v < rules.min_frequency
            \/ CheckDominanceRuleH(y[1], y[2], d, rules)}}

\* C30: _check_p_percent_rule is false for every numeric cell of the table,
\* and the primary set that identify_primary_suppressions leaves is the set
\* of numeric cells that violate the frequency rule or the dominance rule.
C30_PPercentNeverFires ==
    pc = "identified" =>
        /\ \A x \in NumericCoords(data) :
              ~CheckPPercentRuleH(x[1], x[2], data, protection_rules)
        /\ primary_cells = FrequencyOrDominance(data, protection_rules)

====
